---- MODULE Spec2Model ----
(***************************************************************************)
(* Model of the job-search pipeline of job-hunter-api:                     *)
(*   src/app/routes.py      get_jobs (the HTTP boundary)                   *)
(*   src/app/controller.py  JobController.search_jobs,                     *)
(*                          _get_jobs_from_database,                       *)
(*                          _scrape_additional_jobs, _scrape_jobs_with_retry*)
(*                          _filter_duplicate_jobs, _save_jobs_to_database, *)
(*                          _save_jobs_individually                        *)
(*   src/db/schema.py       Job (the table, job_id unique)                 *)
(*                                                                         *)
(* Two callers run concurrently against one store.  A caller either sends  *)
(* GET /jobs (get_jobs -> search_jobs) or invokes the fetch-and-reconcile  *)
(* engine JobController._scrape_additional_jobs.  search_jobs returns at   *)
(* controller.py:64-72, before the (commented out) call of the engine at   *)
(* lines 86-89, so the engine is offered as an operation of its own, with  *)
(* the arguments that call site computes.  Callers interleave at the       *)
(* awaits of the code; a store statement (a SELECT, a COMMIT) is atomic.   *)
(* The callers of a run send the same query (the contended case): its      *)
(* results_wanted and offset, and the provider's listing for it, are       *)
(* chosen once, in Init.  A caller of the engine may be cancelled at an     *)
(* await.                                                                  *)
(*                                                                         *)
(* A second specification, PoolSpec, follows the sessions of GET /jobs     *)
(* requests against the connection pool of src/db/database.py (engine,     *)
(* get_session), with more requests than the pool has connections.         *)
(***************************************************************************)
EXTENDS Integers, Sequences, FiniteSets, TLC

(* ---------------------------------------------------------------------- *)
(* Bounds of the model                                                     *)
(* ---------------------------------------------------------------------- *)
MaxWanted == 2      \* results_wanted ranges over 0..MaxWanted
MaxOffset == 1      \* offset ranges over 0..MaxOffset
MaxStore == 1       \* rows in the store before the first caller starts
MaxListing == 2     \* records the provider lists for the query
MaxFaults == 1      \* failures injected into a run, besides a provider outage

MaxRequests == 22   \* GET /jobs requests of a run of the connection pool

Procs == {1, 2}     \* the concurrent callers

(* ---------------------------------------------------------------------- *)
(* Program constants                                                       *)
(* ---------------------------------------------------------------------- *)
MaxAttempts == 3    \* stop_after_attempt(3)

(* ---------------------------------------------------------------------- *)
(* Data                                                                    *)
(* ---------------------------------------------------------------------- *)
\* Python's None, SQL's NULL: the value of a scraper 'id' or of a Job.job_id
\* that is absent.
None == "None"

\* The request's search_term, and the titles a posting can have.  A posting
\* whose title is "dev" satisfies the filters of the request, "ops" does not.
SearchTerm == "dev"

\* A raw record of the provider: the dict that jobs.to_dict('records') yields.
RawRecords ==
    { [id |-> "a", title |-> "dev"],
      [id |-> "b", title |-> "ops"],
      [id |-> None, title |-> "dev"] }

\* Python truthiness of an id: None and "" are falsy.
Truthy(v) == v # None /\ v # ""

\* Job(**job_dict) after the mapping of the scraper's 'id' to 'job_id'
\* (lines 356-366): the primary key id is unset until the row is committed.
Job(job_data) == [id |-> None, job_id |-> job_data.id, title |-> job_data.title]

\* job.dict() of a row: the mapping of its columns.
JobDict(row) == [id |-> row.id, job_id |-> row.job_id, title |-> row.title]

(* ---------------------------------------------------------------------- *)
(* Sequence helpers                                                        *)
(* ---------------------------------------------------------------------- *)
SeqsUpTo(S, n) == UNION { [1..k -> S] : k \in 0..n }

Min(a, b) == IF a < b THEN a ELSE b

\* s[lo+1 .. hi] with Python slice clamping.
Slice(s, lo, hi) == SubSeq(s, Min(lo, Len(s)) + 1, Min(hi, Len(s)))

(* ---------------------------------------------------------------------- *)
(* The store: table job with UNIQUE(job_id)                                *)
(* ---------------------------------------------------------------------- *)
\* UNIQUE(job_id): NULLs never conflict, every other value (also "") does.
UniqueJobId(rows) ==
    \A i, j \in 1..Len(rows) :
        (i # j /\ rows[i].job_id # None) => rows[i].job_id # rows[j].job_id

StoreIds(rows) == { rows[i].job_id : i \in 1..Len(rows) }

\* INSERT of the pending jobs and COMMIT: each row gets its primary key.
Insert(rows, pending) ==
    rows \o [i \in 1..Len(pending) |-> [pending[i] EXCEPT !.id = Len(rows) + i]]


(* ---------------------------------------------------------------------- *)
(* Query planner: JobController._get_jobs_from_database                    *)
(* ---------------------------------------------------------------------- *)
\* The WHERE clauses (full-text match on search_term and the other filters),
\* joined by AND: a row qualifies when its posting satisfies the request.
MatchesFilters(row) == row.title = SearchTerm

RECURSIVE Where(_)
Where(rows) ==
    IF rows = <<>> THEN <<>>
    ELSE (IF MatchesFilters(Head(rows)) THEN <<Head(rows)>> ELSE <<>>) \o Where(Tail(rows))

\* OffsetLimit with the offset left out of the query.
OffsetLimitNoOffset(rows, offset, results_wanted) == Slice(rows, 0, results_wanted)

\* .offset(offset).limit(results_wanted), then [job.dict() for job in db_jobs].
OffsetLimit(rows, offset, results_wanted) == Slice(rows, offset, offset + results_wanted)

GetJobsFromDatabase(rows, offset, results_wanted) ==
    LET db_jobs == OffsetLimit(Where(rows), offset, results_wanted)
    IN  [i \in 1..Len(db_jobs) |-> JobDict(db_jobs[i])]

(* ---------------------------------------------------------------------- *)
(* Result composer: JobController.search_jobs (controller.py:44-72)        *)
(* ---------------------------------------------------------------------- *)
FinalJobs(db_jobs_dict, results_wanted) ==
    IF Len(db_jobs_dict) > results_wanted
    THEN Slice(db_jobs_dict, 0, results_wanted)
    ELSE db_jobs_dict

\* A search_jobs that reports the number of records asked for as the total.
SearchJobsCountsRequested(rows, offset, results_wanted) ==
    LET db_jobs_dict == GetJobsFromDatabase(rows, offset, results_wanted)
        final_jobs == FinalJobs(db_jobs_dict, results_wanted)
    IN  [ jobs |-> final_jobs,
          source |-> [ database |-> Len(final_jobs),
                       scraped |-> 0,
                       total |-> results_wanted ],
          has_warning |-> FALSE,
          debug_mode |-> "scraper_bypassed" ]

\* The dict search_jobs returns.  has_warning tells whether the dict has a
\* "warning" key; debug_mode is the value of its "debug_mode" key.
SearchJobs(rows, offset, results_wanted) ==
    LET db_jobs_dict == GetJobsFromDatabase(rows, offset, results_wanted)
        final_jobs == FinalJobs(db_jobs_dict, results_wanted)
    IN  [ jobs |-> final_jobs,
          source |-> [ database |-> Len(final_jobs),
                       scraped |-> 0,
                       total |-> Len(final_jobs) ],
          has_warning |-> FALSE,
          debug_mode |-> "scraper_bypassed" ]

(* ---------------------------------------------------------------------- *)
(* Deduplication: JobController._filter_duplicate_jobs                     *)
(* ---------------------------------------------------------------------- *)
\* scraper_job_ids = [job.get('id') for job in scraped_jobs if job.get('id')]
ScraperJobIds(scraped_jobs) ==
    { scraped_jobs[i].id : i \in { k \in 1..Len(scraped_jobs) : Truthy(scraped_jobs[k].id) } }

\* ExistingJobIds with the existence query finding nothing.
ExistingJobIdsNone(rows, scraper_job_ids) == {}

\* select(Job.job_id).where(Job.job_id.in_(scraper_job_ids)), as a set.
ExistingJobIds(rows, scraper_job_ids) == StoreIds(rows) \cap scraper_job_ids

\* The loop without the test of lines 324-327: it does not look at the
\* identifiers it has accepted from the batch.
RECURSIVE FilterLoopNoBatchCheck(_, _, _, _, _)
FilterLoopNoBatchCheck(rest, existing_job_ids, filtered_jobs, processed_ids, additional_needed) ==
    IF rest = <<>> THEN filtered_jobs
    ELSE LET job == Head(rest)
             scraper_job_id == job.id
         IN  IF ~Truthy(scraper_job_id) \/ scraper_job_id \in existing_job_ids
             THEN FilterLoopNoBatchCheck(Tail(rest), existing_job_ids, filtered_jobs,
                                         processed_ids, additional_needed)
             ELSE IF Len(filtered_jobs) + 1 >= additional_needed
             THEN Append(filtered_jobs, job)
             ELSE FilterLoopNoBatchCheck(Tail(rest), existing_job_ids,
                                         Append(filtered_jobs, job),
                                         processed_ids \cup {scraper_job_id},
                                         additional_needed)

\* The for loop of lines 311-336; filtered_jobs and processed_ids are its
\* accumulators, rest is what is left of scraped_jobs.
RECURSIVE FilterLoop(_, _, _, _, _)
FilterLoop(rest, existing_job_ids, filtered_jobs, processed_ids, additional_needed) ==
    IF rest = <<>> THEN filtered_jobs
    ELSE LET job == Head(rest)
             scraper_job_id == job.id
         IN  IF ~Truthy(scraper_job_id)
             THEN FilterLoop(Tail(rest), existing_job_ids, filtered_jobs,
                             processed_ids, additional_needed)
             ELSE IF scraper_job_id \in existing_job_ids
             THEN FilterLoop(Tail(rest), existing_job_ids, filtered_jobs,
                             processed_ids, additional_needed)
             ELSE IF scraper_job_id \in processed_ids
             THEN FilterLoop(Tail(rest), existing_job_ids, filtered_jobs,
                             processed_ids, additional_needed)
             ELSE IF Len(filtered_jobs) + 1 >= additional_needed
             THEN Append(filtered_jobs, job)
             ELSE FilterLoop(Tail(rest), existing_job_ids, Append(filtered_jobs, job),
                             processed_ids \cup {scraper_job_id}, additional_needed)

FilterDuplicateJobs(rows, scraped_jobs, additional_needed) ==
    IF scraped_jobs = <<>> THEN <<>>
    ELSE IF ScraperJobIds(scraped_jobs) = {}
    THEN Slice(scraped_jobs, 0, additional_needed)
    ELSE FilterLoop(scraped_jobs, ExistingJobIds(rows, ScraperJobIds(scraped_jobs)),
                    <<>>, {}, additional_needed)

(* ---------------------------------------------------------------------- *)
(* Persistence: _save_jobs_to_database, _save_jobs_individually            *)
(* ---------------------------------------------------------------------- *)
\* The loop of lines 353-372: malformed is the set of positions at which
\* Job(**job_dict) raises; those records are skipped (continue).
\* BuildJobs with a record that fails to construct ending the loop (break).
RECURSIVE BuildJobsBreak(_, _, _)
BuildJobsBreak(jobs_dict, malformed, i) ==
    IF i > Len(jobs_dict) \/ i \in malformed THEN <<>>
    ELSE <<Job(jobs_dict[i])>> \o BuildJobsBreak(jobs_dict, malformed, i + 1)

RECURSIVE BuildJobs(_, _, _)
BuildJobs(jobs_dict, malformed, i) ==
    IF i > Len(jobs_dict) THEN <<>>
    ELSE (IF i \in malformed THEN <<>> ELSE <<Job(jobs_dict[i])>>)
         \o BuildJobs(jobs_dict, malformed, i + 1)

NewDbJobs(jobs_dict, malformed) == BuildJobs(jobs_dict, malformed, 1)

\* A failure of session.commit(), by what raised it and by what its message
\* says.  The store's message for a UNIQUE(job_id) failure ("duplicate key
\* value violates unique constraint") contains 'unique' and 'duplicate'; the
\* message of any other failure carries the statement and its parameters and
\* may or may not contain one of the two words.
CommitErrors == {"IntegrityError", "OtherErrorSayingUnique", "OtherError"}

\* A test of the message that finds neither word in any message.
IsUniqueViolationMessageNever(e) == FALSE

\* 'unique' in error_message or 'duplicate' in error_message
IsUniqueViolationMessage(e) == e \in {"IntegrityError", "OtherErrorSayingUnique"}

\* CommitOutcomes of a table whose job_id column is not declared unique.
CommitOutcomesNotUnique(rows, pending) == {"ok", "OtherErrorSayingUnique", "OtherError"}

\* The outcomes of committing the pending rows on top of rows: the store
\* rejects them for UNIQUE(job_id) exactly when they would break it, and
\* any commit may fail for another reason.
CommitOutcomes(rows, pending) ==
    (IF UniqueJobId(rows \o pending) THEN {"ok"} ELSE {"IntegrityError"})
    \cup {"OtherErrorSayingUnique", "OtherError"}

\* The outcomes that are failures injected by the environment.
Injected(outcome) == outcome \in {"OtherErrorSayingUnique", "OtherError"}

\* A rollback that writes the session's pending rows instead of discarding
\* them.
RollbackFlushes(rows, pending) == Insert(rows, pending)

\* A rollback that also undoes the last commit.
RollbackDropsLast(rows, pending) == SubSeq(rows, 1, Len(rows) - 1)

\* The store after session.rollback() (lines 393, 396, 414), and after the
\* session is closed with a transaction in flight: the rows are those of the
\* last commit, the session's pending rows are discarded.
Rollback(rows, pending) == rows

\* What line 411, 417 or 420 makes of a record of the per-record loop.
RecordState(outcome) ==
    IF outcome = "ok" THEN "committed"
    ELSE IF IsUniqueViolationMessage(outcome) THEN "skipped-duplicate"
    ELSE "failed"

\* How many times _filter_duplicate_jobs executes existing_job_ids_query
\* (line 303): not at all when it returns at line 290 or 297.
ExistenceQueries(scraped_jobs) ==
    IF scraped_jobs = <<>> \/ ScraperJobIds(scraped_jobs) = {} THEN 0 ELSE 1

(* ---------------------------------------------------------------------- *)
(* State                                                                   *)
(* ---------------------------------------------------------------------- *)
VARIABLES
    store,              \* the rows of table job, in insertion order
    listing,            \* what the provider lists for the query, in its order
    outage,             \* TRUE: the provider fails every call with a network error
    request,            \* results_wanted and offset of the query the callers send
    faults,             \* failures injected so far, besides the outage
    pc,                 \* where each caller is
    args,               \* the arguments of the caller's operation
    db_jobs_dict,       \* the store matches the operation started from
    outcomes,           \* the outcome of each call of scrape_jobs, in order
    calls,              \* the keyword arguments of each call of scrape_jobs
    fetched,            \* the records the provider returned
    existence_queries,  \* executions of existing_job_ids_query by the caller
    scraped_jobs_dict,  \* _scrape_additional_jobs' variable of that name
    new_db_jobs,        \* the Job objects built by _save_jobs_to_database
    malformed,          \* positions of scraped_jobs_dict whose Job(...) raised
    idx,                \* position of _save_jobs_individually's loop
    saved_count,        \* its saved_count
    duplicate_count,    \* its duplicate_count
    record_state,       \* what became of each record the loop has handled
    committed,          \* the rows the caller has committed
    bulk,               \* the outcome of the bulk commit
    returned,           \* what the engine returned to its caller
    response,           \* what get_jobs answered
    exc,                \* the exception that left the operation
    checkedout,         \* connections of the engine's pool that are checked out
    sessions            \* how many GET /jobs requests are in each phase

\* The state of the search pipeline.
searchVars == << store, listing, outage, request, faults, pc, args, db_jobs_dict, outcomes,
                 calls, fetched, existence_queries, scraped_jobs_dict, new_db_jobs,
                 malformed, idx, saved_count, duplicate_count, record_state, committed,
                 bulk, returned, response, exc >>

\* The state of the connection pool.
poolVars == << checkedout, sessions >>

vars == << searchVars, poolVars >>

envVars == << listing, outage, request >>
fetchVars == << outcomes, calls, fetched, existence_queries >>
loopVars == << idx, saved_count, duplicate_count, record_state >>
saveVars == << new_db_jobs, malformed, loopVars, committed, bulk >>

Finished(p) == pc[p] \in {"done", "raised"}

(* ---------------------------------------------------------------------- *)
(* The connection pool: src/db/database.py                                 *)
(* ---------------------------------------------------------------------- *)
PoolSize == 20      \* pool_size=20
MaxOverflow == 0    \* max_overflow=0

\* The phases of a GET /jobs request with respect to its session:
\*   open       get_session has entered "async with async_session()"
\*   waiting    its first statement waits for a connection of the pool
\*   connected  its session holds a connection
\*   returned   get_jobs returned and get_session has left the "async with"
\*   failed     an exception left get_jobs and get_session
Phases == {"open", "waiting", "connected", "returned", "failed"}

NoSessions == [ph \in Phases |-> 0]

\* The requests that have arrived.
Arrived == sessions.open + sessions.waiting + sessions.connected
               + sessions.returned + sessions.failed

\* The requests that have not completed.
InFlight == sessions.open + sessions.waiting + sessions.connected

\* A request moves from one phase to another.
Move(from, to) ==
    /\ sessions[from] >= 1
    /\ sessions' = [sessions EXCEPT ![from] = @ - 1, ![to] = @ + 1]

\* Whether the pool hands out one more connection.
MayCheckout(n) == n < PoolSize + MaxOverflow

\* Leaving the "async with" without closing the session.
SessionExitLeaks(n) == n

\* Leaving "async with async_session() as session" closes the session, which
\* returns its connection to the pool.
SessionExit(n) == n - 1

\* The stores the program can be in before a caller starts: UNIQUE(job_id)
\* holds and the primary keys are those the inserts assigned.
InitialStores ==
    { Insert(<<>>, s) : s \in { t \in SeqsUpTo({ Job(r) : r \in RawRecords }, MaxStore) :
                                  UniqueJobId(t) } }

Init ==
    /\ store \in InitialStores
    /\ listing \in SeqsUpTo(RawRecords, MaxListing)
    /\ outage \in BOOLEAN
    /\ outage => listing = <<>>
    /\ request \in [results_wanted : 0..MaxWanted, offset : 0..MaxOffset]
    /\ faults = 0
    /\ pc = [p \in Procs |-> "idle"]
    /\ args = [p \in Procs |-> [op |-> "none"]]
    /\ db_jobs_dict = [p \in Procs |-> <<>>]
    /\ outcomes = [p \in Procs |-> <<>>]
    /\ calls = [p \in Procs |-> <<>>]
    /\ fetched = [p \in Procs |-> <<>>]
    /\ existence_queries = [p \in Procs |-> 0]
    /\ scraped_jobs_dict = [p \in Procs |-> <<>>]
    /\ new_db_jobs = [p \in Procs |-> <<>>]
    /\ malformed = [p \in Procs |-> {}]
    /\ idx = [p \in Procs |-> 0]
    /\ saved_count = [p \in Procs |-> 0]
    /\ duplicate_count = [p \in Procs |-> 0]
    /\ record_state = [p \in Procs |-> <<>>]
    /\ committed = [p \in Procs |-> <<>>]
    /\ bulk = [p \in Procs |-> "none"]
    /\ returned = [p \in Procs |-> <<>>]
    /\ response = [p \in Procs |-> [status |-> 0]]
    /\ exc = [p \in Procs |-> "none"]
    /\ checkedout = 0
    /\ sessions = NoSessions

\* Callers are interchangeable: they are numbered in the order they start.
MayStart(p) == pc[p] = "idle" /\ \A q \in Procs : q < p => pc[q] # "idle"

\* Injected failures (an exception of scrape_jobs, a commit that fails for a
\* reason other than UNIQUE(job_id), a record whose Job(...) raises) use up
\* the budget of the run.
InjectN(n) == faults + n <= MaxFaults /\ faults' = faults + n

Inject == InjectN(1)

(* ---------------------------------------------------------------------- *)
(* GET /jobs: routes.get_jobs -> JobController.search_jobs                 *)
(* ---------------------------------------------------------------------- *)
\* A search_jobs that writes: it stores a copy of the first row it read.
GetJobsAndSave(p) ==
    /\ MayStart(p)
    /\ LET results_wanted == request.results_wanted
           offset == request.offset
           db_jobs == OffsetLimit(Where(store), offset, results_wanted)
       IN  /\ args' = [args EXCEPT ![p] = [op |-> "get_jobs",
                                           results_wanted |-> results_wanted,
                                           offset |-> offset]]
           /\ db_jobs_dict' = [db_jobs_dict EXCEPT
                                 ![p] = GetJobsFromDatabase(store, offset, results_wanted)]
           /\ response' = [response EXCEPT
                             ![p] = [status |-> 200,
                                     body |-> SearchJobs(store, offset, results_wanted)]]
           /\ store' = IF db_jobs = <<>> THEN store
                       ELSE Insert(store, << [db_jobs[1] EXCEPT !.job_id = None] >>)
    /\ pc' = [pc EXCEPT ![p] = "done"]
    /\ UNCHANGED << envVars, poolVars, faults, fetchVars, scraped_jobs_dict, saveVars,
                    returned, exc >>

\* search_jobs reads the store and returns (lines 45-72); it raises none of
\* the exceptions get_jobs turns into a 503 (routes.py:47-51), so get_jobs
\* returns the dict (routes.py:45).
GetJobs(p) ==
    /\ MayStart(p)
    /\ LET results_wanted == request.results_wanted
           offset == request.offset
       IN  /\ args' = [args EXCEPT ![p] = [op |-> "get_jobs",
                                           results_wanted |-> results_wanted,
                                           offset |-> offset]]
           /\ db_jobs_dict' = [db_jobs_dict EXCEPT
                                 ![p] = GetJobsFromDatabase(store, offset, results_wanted)]
           /\ response' = [response EXCEPT
                             ![p] = [status |-> 200,
                                     body |-> SearchJobs(store, offset, results_wanted)]]
    /\ pc' = [pc EXCEPT ![p] = "done"]
    /\ UNCHANGED << store, envVars, poolVars, faults, fetchVars, scraped_jobs_dict, saveVars,
                    returned, exc >>

(* ---------------------------------------------------------------------- *)
(* The engine: JobController._scrape_additional_jobs                       *)
(* ---------------------------------------------------------------------- *)
\* A scraper offset that ignores the store matches.
ScraperOffsetOriginal(offset, db) == offset

\* scraper_offset = offset + len(db_jobs_dict) if db_jobs_dict else offset
ScraperOffset(offset, db) == IF db # <<>> THEN offset + Len(db) ELSE offset

\* The keyword arguments of _scrape_jobs_with_retry that vary (lines 234-247).
ScrapeKwargs(a, db) ==
    [results_wanted |-> a.additional_needed, offset |-> ScraperOffset(a.offset, db)]

\* Entry, with the arguments the call site of lines 83-89 computes: the store
\* matches of a request that has too few of them, and the number missing.
ScrapeAdditionalJobs(p) ==
    /\ MayStart(p)
    /\ LET results_wanted == request.results_wanted
           offset == request.offset
           db == GetJobsFromDatabase(store, offset, results_wanted)
       IN  /\ Len(db) < results_wanted
           /\ args' = [args EXCEPT ![p] = [op |-> "engine",
                                           results_wanted |-> results_wanted,
                                           offset |-> offset,
                                           additional_needed |-> results_wanted - Len(db)]]
           /\ db_jobs_dict' = [db_jobs_dict EXCEPT ![p] = db]
    /\ pc' = [pc EXCEPT ![p] = "scrape"]
    /\ UNCHANGED << store, envVars, poolVars, faults, fetchVars, scraped_jobs_dict, saveVars,
                    returned, response, exc >>

\* What scrape_jobs returns for the keyword arguments: nothing, or the
\* provider's listing from the offset on, as many records as were asked for
\* (fewer when the listing ends) or more.
ScrapeResults(kw) ==
    {<<>>} \cup { Slice(listing, kw.offset, kw.offset + n) :
                     n \in kw.results_wanted..(Len(listing) + kw.results_wanted) }

\* One attempt of _scrape_jobs_with_retry runs scrape_jobs(**kwargs).
Attempt(p) ==
    /\ pc[p] = "scrape"
    /\ calls' = [calls EXCEPT ![p] = Append(@, ScrapeKwargs(args[p], db_jobs_dict[p]))]

\* An engine that takes an empty frame for a failure of the provider.
ScrapeEmptyRaises(p) ==
    /\ Attempt(p)
    /\ ~outage
    /\ <<>> \in ScrapeResults(ScrapeKwargs(args[p], db_jobs_dict[p]))
    /\ outcomes' = [outcomes EXCEPT ![p] = Append(@, "ok")]
    /\ exc' = [exc EXCEPT ![p] = "Exception"]
    /\ pc' = [pc EXCEPT ![p] = "raised"]
    /\ UNCHANGED << store, envVars, poolVars, faults, args, db_jobs_dict, fetched,
                    existence_queries, scraped_jobs_dict, saveVars, returned, response >>

\* The attempt returns a frame that is empty (lines 252, 276-279): the engine
\* returns [] without touching the store.
ScrapeEmpty(p) ==
    /\ Attempt(p)
    /\ ~outage
    /\ <<>> \in ScrapeResults(ScrapeKwargs(args[p], db_jobs_dict[p]))
    /\ outcomes' = [outcomes EXCEPT ![p] = Append(@, "ok")]
    /\ returned' = [returned EXCEPT ![p] = <<>>]
    /\ pc' = [pc EXCEPT ![p] = "done"]
    /\ UNCHANGED << store, envVars, poolVars, faults, args, db_jobs_dict, fetched,
                    existence_queries, scraped_jobs_dict, saveVars, response, exc >>

\* The attempt returns records (lines 252-260), and the engine filters them
\* (lines 262-265: the existence query and the loop over its result).
ScrapeAndFilter(p) ==
    /\ Attempt(p)
    /\ ~outage
    /\ \E jobs \in ScrapeResults(ScrapeKwargs(args[p], db_jobs_dict[p])) \ {<<>>} :
          /\ fetched' = [fetched EXCEPT ![p] = jobs]
          /\ existence_queries' = [existence_queries EXCEPT
                ![p] = @ + ExistenceQueries(jobs)]
          /\ scraped_jobs_dict' = [scraped_jobs_dict EXCEPT
                ![p] = FilterDuplicateJobs(store, jobs, args[p].additional_needed)]
    /\ outcomes' = [outcomes EXCEPT ![p] = Append(@, "ok")]
    /\ pc' = [pc EXCEPT ![p] = "save"]
    /\ UNCHANGED << store, envVars, poolVars, faults, args, db_jobs_dict, saveVars, returned,
                    response, exc >>

\* StopAfterAttempt off by one: it stops after the fourth attempt.
StopAfterAttemptLate(attempt_number) == attempt_number > MaxAttempts

\* Whether tenacity stops after this many attempts: stop_after_attempt(3).
StopAfterAttempt(attempt_number) == attempt_number >= MaxAttempts

\* The exceptions scrape_jobs raises: "transient" is a
\* requests.exceptions.RequestException (requests' RetryError is one),
\* "fatal" is any other exception.
RetryIfExceptionType(outcome) == outcome = "transient"

\* What _scrape_jobs_with_retry does after an attempt that raised: the next
\* attempt (after the wait), or the exception that leaves it.  tenacity
\* re-raises an exception it does not retry, and raises its own
\* tenacity.RetryError when the attempts are used up.
AfterFailure(outcome, attempt_number) ==
    IF ~RetryIfExceptionType(outcome) THEN "Exception"
    ELSE IF StopAfterAttempt(attempt_number) THEN "tenacity.RetryError"
    ELSE "retry"

\* The attempt raises.
ScrapeRaises(p, outcome) ==
    /\ Attempt(p)
    /\ outcomes' = [outcomes EXCEPT ![p] = Append(@, outcome)]
    /\ LET next == AfterFailure(outcome, Len(outcomes[p]) + 1)
       IN  IF next = "retry"
           THEN UNCHANGED << exc, pc >>
           ELSE /\ exc' = [exc EXCEPT ![p] = next]
                /\ pc' = [pc EXCEPT ![p] = "raised"]
    /\ UNCHANGED << store, envVars, poolVars, args, db_jobs_dict, fetched,
                    existence_queries, scraped_jobs_dict, saveVars, returned, response >>

\* The provider is down: the attempt raises a network error.
ScrapeOutage(p) ==
    /\ outage
    /\ ScrapeRaises(p, "transient")
    /\ UNCHANGED faults

\* The provider is up and the attempt raises a network or rate-limit error.
ScrapeTransient(p) ==
    /\ ~outage
    /\ Inject
    /\ ScrapeRaises(p, "transient")

\* The attempt raises any other exception.
ScrapeFatal(p) ==
    /\ ~outage
    /\ Inject
    /\ ScrapeRaises(p, "fatal")

\* Line 279: the engine returns scraped_jobs_dict, the filtered records.
EngineReturns(p) ==
    /\ returned' = [returned EXCEPT ![p] = scraped_jobs_dict[p]]
    /\ pc' = [pc EXCEPT ![p] = "done"]

\* _save_jobs_to_database has nothing to commit: jobs_dict is empty (lines
\* 345-347) or every Job(...) raised (lines 369-372, 381-382).
SaveNothing(p) ==
    /\ pc[p] = "save"
    /\ \E bad \in SUBSET (1..Len(scraped_jobs_dict[p])) :
          /\ NewDbJobs(scraped_jobs_dict[p], bad) = <<>>
          /\ InjectN(Cardinality(bad))
          /\ malformed' = [malformed EXCEPT ![p] = bad]
    /\ EngineReturns(p)
    /\ UNCHANGED << store, envVars, poolVars, args, db_jobs_dict, fetchVars,
                    scraped_jobs_dict, new_db_jobs, loopVars, committed, bulk,
                    response, exc >>

\* Lines 351-379: the Job objects are built, added and committed at once.
BulkCommit(p, bad, outcome) ==
    /\ pc[p] = "save"
    /\ bad \in SUBSET (1..Len(scraped_jobs_dict[p]))
    /\ NewDbJobs(scraped_jobs_dict[p], bad) # <<>>
    /\ outcome \in CommitOutcomes(store, NewDbJobs(scraped_jobs_dict[p], bad))
    /\ InjectN(Cardinality(bad) + (IF Injected(outcome) THEN 1 ELSE 0))
    /\ malformed' = [malformed EXCEPT ![p] = bad]
    /\ new_db_jobs' = [new_db_jobs EXCEPT ![p] = NewDbJobs(scraped_jobs_dict[p], bad)]
    /\ bulk' = [bulk EXCEPT ![p] = outcome]

\* The commit succeeds (line 380).
SaveBulkOk(p) ==
    /\ \E bad \in SUBSET (1..Len(scraped_jobs_dict[p])) :
          /\ BulkCommit(p, bad, "ok")
          /\ store' = Insert(store, NewDbJobs(scraped_jobs_dict[p], bad))
          /\ committed' = [committed EXCEPT
                             ![p] = SubSeq(store', Len(store) + 1, Len(store'))]
    /\ EngineReturns(p)
    /\ UNCHANGED << envVars, poolVars, args, db_jobs_dict, fetchVars, scraped_jobs_dict,
                    loopVars, response, exc >>

\* A _save_jobs_to_database without the branch of lines 390-394: a commit
\* whose message looks like a constraint violation is rolled back and raised.
SaveBulkNoFallback(p) ==
    /\ \E bad \in SUBSET (1..Len(scraped_jobs_dict[p])), e \in CommitErrors :
          /\ BulkCommit(p, bad, e)
          /\ IsUniqueViolationMessage(e)
          /\ store' = Rollback(store, NewDbJobs(scraped_jobs_dict[p], bad))
    /\ exc' = [exc EXCEPT ![p] = "DatabaseError"]
    /\ pc' = [pc EXCEPT ![p] = "raised"]
    /\ UNCHANGED << envVars, poolVars, args, db_jobs_dict, fetchVars, scraped_jobs_dict,
                    loopVars, committed, returned, response >>

\* The commit fails and the message looks like a constraint violation (lines
\* 389-394): rollback, then _save_jobs_individually(session, new_db_jobs).
SaveBulkFallback(p) ==
    /\ \E bad \in SUBSET (1..Len(scraped_jobs_dict[p])), e \in CommitErrors :
          /\ BulkCommit(p, bad, e)
          /\ IsUniqueViolationMessage(e)
          /\ store' = Rollback(store, NewDbJobs(scraped_jobs_dict[p], bad))
    /\ idx' = [idx EXCEPT ![p] = 1]
    /\ pc' = [pc EXCEPT ![p] = "individual"]
    /\ UNCHANGED << envVars, poolVars, args, db_jobs_dict, fetchVars, scraped_jobs_dict,
                    saved_count, duplicate_count, record_state, committed, returned,
                    response, exc >>

\* The commit fails with any other message (lines 395-398): rollback, raise.
SaveBulkRaise(p) ==
    /\ \E bad \in SUBSET (1..Len(scraped_jobs_dict[p])), e \in CommitErrors :
          /\ BulkCommit(p, bad, e)
          /\ ~IsUniqueViolationMessage(e)
          /\ store' = Rollback(store, NewDbJobs(scraped_jobs_dict[p], bad))
    /\ exc' = [exc EXCEPT ![p] = "DatabaseError"]
    /\ pc' = [pc EXCEPT ![p] = "raised"]
    /\ UNCHANGED << envVars, poolVars, args, db_jobs_dict, fetchVars, scraped_jobs_dict,
                    loopVars, committed, returned, response >>

\* One iteration of _save_jobs_individually's loop (lines 407-420), and the
\* return of the engine after the last one.
SaveIndividually(p) ==
    /\ pc[p] = "individual"
    /\ LET job == new_db_jobs[p][idx[p]]
       IN  \E outcome \in CommitOutcomes(store, <<job>>) :
              /\ IF Injected(outcome) THEN Inject ELSE UNCHANGED faults
              /\ IF outcome = "ok"
                 THEN /\ store' = Insert(store, <<job>>)
                      /\ committed' = [committed EXCEPT
                                         ![p] = @ \o << store'[Len(store')] >>]
                      /\ saved_count' = [saved_count EXCEPT ![p] = @ + 1]
                      /\ UNCHANGED duplicate_count
                 ELSE /\ store' = Rollback(store, <<job>>)
                      /\ duplicate_count' = [duplicate_count EXCEPT
                            ![p] = IF IsUniqueViolationMessage(outcome) THEN @ + 1 ELSE @]
                      /\ UNCHANGED << committed, saved_count >>
              /\ record_state' = [record_state EXCEPT
                                    ![p] = Append(@, RecordState(outcome))]
    /\ idx' = [idx EXCEPT ![p] = @ + 1]
    /\ IF idx[p] = Len(new_db_jobs[p])
       THEN EngineReturns(p)
       ELSE UNCHANGED << pc, returned >>
    /\ UNCHANGED << envVars, poolVars, args, db_jobs_dict, fetchVars, scraped_jobs_dict,
                    new_db_jobs, malformed, bulk, response, exc >>

\* The caller's task is cancelled while it fetches (the cancellation is
\* delivered at its next await), while the bulk commit is in flight, or in
\* the per-record loop while a commit is in flight.  No handler catches
\* CancelledError (it is not an Exception); leaving get_session's
\* "async with" closes the session, which rolls back what is in flight.
Cancel(p) ==
    /\ \/ /\ pc[p] = "scrape"
          /\ store' = Rollback(store, <<>>)
       \/ /\ pc[p] = "save"
          /\ scraped_jobs_dict[p] # <<>>
          /\ store' = Rollback(store, NewDbJobs(scraped_jobs_dict[p], {}))
       \/ /\ pc[p] = "individual"
          /\ store' = Rollback(store, << new_db_jobs[p][idx[p]] >>)
    /\ exc' = [exc EXCEPT ![p] = "CancelledError"]
    /\ pc' = [pc EXCEPT ![p] = "cancelled"]
    /\ UNCHANGED << envVars, poolVars, faults, args, db_jobs_dict, fetchVars,
                    scraped_jobs_dict, saveVars, returned, response >>

Next ==
    \E p \in Procs :
        \/ GetJobs(p)
        \/ ScrapeAdditionalJobs(p)
        \/ ScrapeEmpty(p)
        \/ ScrapeAndFilter(p)
        \/ ScrapeOutage(p)
        \/ ScrapeTransient(p)
        \/ ScrapeFatal(p)
        \/ SaveNothing(p)
        \/ SaveBulkOk(p)
        \/ SaveBulkFallback(p)
        \/ SaveBulkRaise(p)
        \/ SaveIndividually(p)
        \/ Cancel(p)

Spec == Init /\ [][Next]_vars

(* ---------------------------------------------------------------------- *)
(* GET /jobs requests and the connection pool                              *)
(* ---------------------------------------------------------------------- *)
\* A request arrives: FastAPI resolves Depends(get_session) (routes.py:27),
\* which opens a session (database.py:21-25).  A session holds no connection
\* until its first statement.
GetSession ==
    /\ Arrived < MaxRequests
    /\ sessions' = [sessions EXCEPT !["open"] = @ + 1]
    /\ UNCHANGED << checkedout, searchVars >>

\* The first statement of search_jobs (controller.py:200) takes a
\* connection of the pool.
Checkout ==
    /\ MayCheckout(checkedout)
    /\ Move("open", "connected")
    /\ checkedout' = checkedout + 1
    /\ UNCHANGED searchVars

\* Every connection is checked out: the statement waits.
PoolExhausted ==
    /\ ~MayCheckout(checkedout)
    /\ Move("open", "waiting")
    /\ UNCHANGED << checkedout, searchVars >>

\* A connection came back: a waiting statement takes it.
WaitEnds ==
    /\ MayCheckout(checkedout)
    /\ Move("waiting", "connected")
    /\ checkedout' = checkedout + 1
    /\ UNCHANGED searchVars

\* The wait times out (pool_timeout): the statement raises, the exception
\* leaves get_jobs (routes.py:47 does not catch it) and get_session.  The
\* session held no connection.
PoolTimeout ==
    /\ Move("waiting", "failed")
    /\ UNCHANGED << checkedout, searchVars >>

\* search_jobs returns, get_jobs returns its result (routes.py:45) and
\* get_session leaves the "async with" (database.py:25-26).
HandlerReturns ==
    /\ Move("connected", "returned")
    /\ checkedout' = SessionExit(checkedout)
    /\ UNCHANGED searchVars

\* A statement of search_jobs raises: the exception leaves get_jobs, as
\* itself or as the HTTPException of routes.py:47-51, and get_session's
\* "async with".
HandlerRaises ==
    /\ Move("connected", "failed")
    /\ checkedout' = SessionExit(checkedout)
    /\ UNCHANGED searchVars

\* The pool is watched under one query against an empty store.
PoolInit ==
    /\ Init
    /\ store = <<>>
    /\ listing = <<>>
    /\ ~outage
    /\ request = [results_wanted |-> 0, offset |-> 0]

PoolNext ==
    \/ GetSession
    \/ Checkout
    \/ PoolExhausted
    \/ WaitEnds
    \/ PoolTimeout
    \/ HandlerReturns
    \/ HandlerRaises

PoolSpec == PoolInit /\ [][PoolNext]_vars

(* ---------------------------------------------------------------------- *)
(* Properties                                                              *)
(* ---------------------------------------------------------------------- *)
IsRequest(p) == args[p].op = "get_jobs"
IsEngine(p) == args[p].op = "engine"

\* The provider identifiers of a sequence of raw records or of rows.
RawIds(jobs) == { jobs[i].id : i \in 1..Len(jobs) }

\* C1: in every reachable state of the store, also after a bulk insert that
\* conflicted and fell back to per-record commits, no two rows share a
\* non-null job_id.
C1_UniqueProviderId == UniqueJobId(store)

\* A caller whose bulk commit hit UNIQUE(job_id) has finished the per-record
\* fallback, having committed one record and skipped another as a duplicate.
C1_Witness ==
    \E p \in Procs :
        /\ pc[p] = "done"
        /\ bulk[p] = "IntegrityError"
        /\ saved_count[p] >= 1
        /\ duplicate_count[p] >= 1

\* C2: a search request whose store query returned fewer than results_wanted
\* records has called the provider, asking for at least
\* results_wanted - len(db_jobs_dict) records.
C2_FetchesWhatIsMissing ==
    \A p \in Procs :
        (/\ pc[p] = "done"
         /\ IsRequest(p)
         /\ Len(db_jobs_dict[p]) < args[p].results_wanted)
        => /\ calls[p] # <<>>
           /\ \A i \in 1..Len(calls[p]) :
                 calls[p][i].results_wanted
                     >= args[p].results_wanted - Len(db_jobs_dict[p])

\* C3: a search request whose store query returned at least results_wanted
\* records never calls the provider, and answers exactly the first
\* results_wanted store matches (from the offset on), in the store's order.
C3_EnoughInStore ==
    \A p \in Procs :
        (/\ pc[p] = "done"
         /\ IsRequest(p)
         /\ Len(db_jobs_dict[p]) >= args[p].results_wanted)
        => /\ calls[p] = <<>>
           /\ response[p].status = 200
           /\ Len(response[p].body.jobs) = args[p].results_wanted
           /\ \A i \in 1..args[p].results_wanted :
                 /\ Len(Where(store)) >= args[p].offset + i
                 /\ response[p].body.jobs[i] = JobDict(Where(store)[args[p].offset + i])

\* A request that asked for a record at a positive offset was answered from
\* a store that had enough matches.
C3_Witness ==
    \E p \in Procs :
        /\ pc[p] = "done"
        /\ IsRequest(p)
        /\ args[p].results_wanted >= 1
        /\ args[p].offset >= 1
        /\ Len(db_jobs_dict[p]) >= args[p].results_wanted

\* The step in which caller q filters the batch it fetched, run as a second
\* pass after caller p: p has returned, q fetched the batch p fetched, with
\* the same additional_needed, and q started from the store as p left it.
SecondPass(p, q) ==
    /\ p # q
    /\ pc[p] = "done"
    /\ IsEngine(p)
    /\ fetched[p] # <<>>
    /\ pc[q] = "scrape"
    /\ pc'[q] = "save"
    /\ fetched'[q] = fetched[p]
    /\ args[q].additional_needed = args[p].additional_needed
    /\ db_jobs_dict[q] = GetJobsFromDatabase(store, args[q].offset, args[q].results_wanted)

\* C4 as stated: the second pass over the batch accepts no record, whatever
\* the batch, also when it holds more new identifiers than additional_needed.
\* The first pass is one in which nothing failed, over a batch whose records
\* all carry an identifier.
C4_SecondPassAcceptsNothing ==
    [][ \A p, q \in Procs :
          (/\ SecondPass(p, q)
           /\ malformed[p] = {}
           /\ bulk[p] = "ok"
           /\ \A i \in 1..Len(fetched[p]) : Truthy(fetched[p][i].id))
          => scraped_jobs_dict'[q] = <<>> ]_vars

\* C4 as amended: the second pass accepts no record that carries a provider
\* identifier the first pass committed.
C4_SecondPassAcceptsNothingCommitted ==
    [][ \A p, q \in Procs :
          SecondPass(p, q)
          => RawIds(scraped_jobs_dict'[q])
                \cap (StoreIds(committed[p]) \ {None}) = {} ]_vars

\* Caller 2 ran a second pass over the batch caller 1 had fetched and
\* committed, and accepted none of it.
C4_Witness ==
    /\ pc[1] = "done" /\ IsEngine(1)
    /\ pc[2] = "done" /\ IsEngine(2)
    /\ fetched[1] # <<>>
    /\ fetched[2] = fetched[1]
    /\ args[2].additional_needed = args[1].additional_needed
    /\ bulk[1] = "ok"
    /\ StoreIds(committed[1]) \ {None} # {}
    /\ scraped_jobs_dict[2] = <<>>

\* C5: when the provider fails every attempt with a network error and the
\* store query of a search request returned some records (fewer than
\* results_wanted, so that the provider is needed), the request is answered
\* with exactly those records and a "warning" annotation.
C5_DegradesWithWarning ==
    \A p \in Procs :
        (/\ Finished(p)
         /\ IsRequest(p)
         /\ outage
         /\ db_jobs_dict[p] # <<>>
         /\ Len(db_jobs_dict[p]) < args[p].results_wanted)
        => /\ pc[p] = "done"
           /\ response[p].status = 200
           /\ response[p].body.jobs = db_jobs_dict[p]
           /\ response[p].body.has_warning

\* C6: when the provider fails every attempt with a network error and the
\* store query of a search request returned nothing, get_jobs answers 503.
C6_Unavailable503 ==
    \A p \in Procs :
        (/\ Finished(p)
         /\ IsRequest(p)
         /\ outage
         /\ args[p].results_wanted >= 1
         /\ db_jobs_dict[p] = <<>>)
        => response[p].status = 503

\* C7: when exactly one record of the batch handed to _save_jobs_to_database
\* fails Job construction and the commit of the others does not fail, the
\* other N-1 records are persisted: the rows the call committed are in the
\* store and carry, in order, the identifiers of the well-formed records.
C7_MalformedSkipped ==
    \A p \in Procs :
        (/\ pc[p] = "done"
         /\ IsEngine(p)
         /\ Cardinality(malformed[p]) = 1
         /\ bulk[p] \in {"none", "ok"})
        => /\ Len(committed[p]) = Len(scraped_jobs_dict[p]) - 1
           /\ \A i \in 1..Len(committed[p]) :
                 /\ \E k \in 1..Len(store) : store[k] = committed[p][i]
                 /\ committed[p][i].job_id =
                       scraped_jobs_dict[p][IF \A m \in malformed[p] : i < m
                                            THEN i ELSE i + 1].id

\* A batch of two records, the first of which failed to construct, left one
\* committed row.
C7_Witness ==
    \E p \in Procs :
        /\ pc[p] = "done"
        /\ IsEngine(p)
        /\ Len(scraped_jobs_dict[p]) = 2
        /\ malformed[p] = {1}
        /\ bulk[p] = "ok"
        /\ Len(committed[p]) = 1

\* The records the provider lists from position offset on.
ListedFrom(offset) == Slice(listing, offset, Len(listing))

\* C8: when the store query of a search request returned s < results_wanted
\* records and the provider has more than results_wanted - s records with
\* distinct identifiers absent from the store, the response counts
\* database = s, scraped = results_wanted - s, total = results_wanted.
C8_ProvenanceOfFetch ==
    \A p \in Procs :
        (/\ pc[p] = "done"
         /\ IsRequest(p)
         /\ ~outage
         /\ Len(db_jobs_dict[p]) < args[p].results_wanted
         /\ LET listed == ListedFrom(ScraperOffset(args[p].offset, db_jobs_dict[p]))
            IN  /\ \A i \in 1..Len(listed) : Truthy(listed[i].id)
                /\ Cardinality(RawIds(listed)) = Len(listed)
                /\ RawIds(listed) \cap StoreIds(store) = {}
                /\ Len(listed) > args[p].results_wanted - Len(db_jobs_dict[p]))
        => response[p].body.source =
               [ database |-> Len(db_jobs_dict[p]),
                 scraped |-> args[p].results_wanted - Len(db_jobs_dict[p]),
                 total |-> args[p].results_wanted ]

\* C9: every record the engine returns as newly fetched is in the store when
\* the engine returns.
C9_ReturnedIsPersisted ==
    \A p \in Procs :
        (pc[p] = "done" /\ IsEngine(p))
        => \A i \in 1..Len(returned[p]) :
              \E k \in 1..Len(store) :
                 /\ store[k].job_id = returned[p][i].id
                 /\ store[k].title = returned[p][i].title

\* C10: _scrape_jobs_with_retry calls the provider at most 3 times; every
\* attempt but the last raised a network or rate-limit error; and an attempt
\* that raised another exception is the last one and leaves the operation
\* with that exception.
C10_BoundedRetry ==
    \A p \in Procs :
        /\ Len(calls[p]) <= 3
        /\ Len(calls[p]) = Len(outcomes[p])
        /\ \A i \in 1..Len(outcomes[p]) :
              /\ i < Len(outcomes[p]) => outcomes[p][i] = "transient"
              /\ outcomes[p][i] = "fatal"
                    => (pc[p] = "raised" /\ exc[p] = "Exception")
        /\ (outcomes[p] = <<"fatal">>) => Len(calls[p]) = 1

\* A caller left _scrape_jobs_with_retry with an exception: after three
\* network errors, or after a network error followed by another exception.
C10_Witness ==
    \E p \in Procs :
        /\ pc[p] = "raised"
        /\ outcomes[p] \in { <<"transient", "transient", "transient">>,
                             <<"transient", "fatal">> }
        /\ Len(calls[p]) = Len(outcomes[p])

\* How many records of the per-record loop ended in the state.
Count(states, state) == Cardinality({ i \in 1..Len(states) : states[i] = state })

\* C11: when the bulk commit fails on UNIQUE(job_id), the step that handles
\* the failure leaves the store as it was (nothing of the batch is written by
\* the bulk transaction) and enters the per-record loop; the loop attempts
\* every record of the batch, whatever happened to the records before it;
\* a record it committed is in the store; and _save_jobs_to_database does
\* not raise: the engine returns.
C11_BulkConflictFallsBack ==
    /\ [] \A p \in Procs :
             bulk[p] = "IntegrityError"
             => /\ pc[p] \in {"individual", "done", "cancelled"}
                /\ exc[p] \in {"none", "CancelledError"}
                /\ pc[p] = "individual" => idx[p] = Len(record_state[p]) + 1
                /\ pc[p] = "done"
                      => /\ Len(record_state[p]) = Len(new_db_jobs[p])
                         /\ returned[p] = scraped_jobs_dict[p]
                /\ \A i \in 1..Len(record_state[p]) :
                      record_state[p][i] = "committed"
                      => \E k \in 1..Len(store) :
                            /\ store[k].job_id = new_db_jobs[p][i].job_id
                            /\ store[k].title = new_db_jobs[p][i].title
    /\ [][ \A p \in Procs :
             (pc[p] = "save" /\ bulk'[p] = "IntegrityError")
             => /\ store' = store
                /\ pc'[p] = "individual"
                /\ idx'[p] = 1
                /\ record_state'[p] = <<>> ]_vars

\* A caller whose bulk commit hit UNIQUE(job_id) has finished the loop over
\* a batch of two: the commit of the first record failed for another reason,
\* and the second record was still attempted.
C11_Witness ==
    \E p \in Procs :
        /\ pc[p] = "done"
        /\ bulk[p] = "IntegrityError"
        /\ Len(record_state[p]) = 2
        /\ record_state[p][1] = "failed"
        /\ record_state[p][2] = "skipped-duplicate"

\* C12: a bulk commit (of records that carry an identifier) that failed for
\* a reason other than UNIQUE(job_id) is followed by no per-record loop: the
\* call has rolled back, committed nothing and raised the error.
C12_OtherFailurePropagates ==
    \A p \in Procs :
        (/\ bulk[p] \in CommitErrors
         /\ bulk[p] # "IntegrityError"
         /\ \A i \in 1..Len(scraped_jobs_dict[p]) : Truthy(scraped_jobs_dict[p][i].id))
        => /\ pc[p] = "raised"
           /\ exc[p] = "DatabaseError"
           /\ idx[p] = 0
           /\ record_state[p] = <<>>
           /\ committed[p] = <<>>

\* C13: every record _filter_duplicate_jobs accepted carries a provider
\* identifier, also when no record of the fetched batch carries one.
C13_AcceptsOnlyIdentified ==
    \A p \in Procs :
        \A i \in 1..Len(scraped_jobs_dict[p]) : Truthy(scraped_jobs_dict[p][i].id)

\* Both callers ran the engine and accepted a record with the same provider
\* identifier: each made its existence check before the other committed.
Contended ==
    /\ IsEngine(1)
    /\ IsEngine(2)
    /\ (RawIds(scraped_jobs_dict[1]) \cap RawIds(scraped_jobs_dict[2])) \ {None} # {}

\* C14: when two concurrent callers of the engine both accepted a record
\* with the same provider identifier, and nothing else fails, the store never
\* holds two rows with that job_id and neither caller raises; once both
\* have returned, one bulk commit succeeded, the other hit UNIQUE(job_id)
\* and its caller went through the whole per-record loop, each caller
\* returned the records it accepted, and every identifier they accepted is
\* in the store.
C14_ContendedCallersComplete ==
    (Contended /\ faults = 0)
    => /\ UniqueJobId(store)
       /\ \A p \in Procs :
             /\ pc[p] # "raised"
             /\ bulk[p] \in {"none", "ok", "IntegrityError"}
             /\ bulk[p] = "IntegrityError"
                   => pc[p] \in {"individual", "done", "cancelled"}
       /\ (pc[1] = "done" /\ pc[2] = "done")
             => /\ \E p \in Procs :
                      /\ bulk[p] = "ok"
                      /\ bulk[3 - p] = "IntegrityError"
                      /\ Len(record_state[3 - p]) = Len(new_db_jobs[3 - p])
                /\ \A p \in Procs :
                      /\ returned[p] = scraped_jobs_dict[p]
                      /\ RawIds(scraped_jobs_dict[p]) \subseteq StoreIds(store)

\* Two callers accepted the same two records; the one whose bulk commit
\* came second fell back to the per-record loop, and both have returned.
C14_Witness ==
    /\ Contended
    /\ faults = 0
    /\ pc[1] = "done"
    /\ pc[2] = "done"
    /\ Len(scraped_jobs_dict[1]) = 2
    /\ scraped_jobs_dict[2] = scraped_jobs_dict[1]
    /\ \E p \in Procs :
          /\ bulk[p] = "IntegrityError"
          /\ record_state[p] = << "skipped-duplicate", "skipped-duplicate" >>

\* C15: the response of every search request lists source.database records
\* of the store query, in its order, then source.scraped records the engine
\* returned, in their order; it holds at most results_wanted records; and
\* source.total = len(jobs) = source.database + source.scraped.
C15_ResponseComposition ==
    \A p \in Procs :
        (pc[p] = "done" /\ IsRequest(p))
        => LET jobs == response[p].body.jobs
               source == response[p].body.source
           IN  /\ response[p].status = 200
               /\ Len(jobs) <= args[p].results_wanted
               /\ source.total = Len(jobs)
               /\ source.total = source.database + source.scraped
               /\ source.database <= Len(db_jobs_dict[p])
               /\ source.scraped <= Len(returned[p])
               /\ \A i \in 1..Len(jobs) :
                     IF i <= source.database
                     THEN jobs[i] = db_jobs_dict[p][i]
                     ELSE jobs[i] = returned[p][i - source.database]

\* A request for two records was answered with two.
C15_Witness ==
    \E p \in Procs :
        /\ pc[p] = "done"
        /\ IsRequest(p)
        /\ args[p].results_wanted = 2
        /\ Len(response[p].body.jobs) = 2
        /\ response[p].body.source.total = 2

\* C16: the connections checked out of the pool are exactly those of the
\* requests whose session holds one (a request that returned or failed has
\* given its connection back); never more than pool_size + max_overflow = 20
\* are checked out; and once every request that arrived has completed, none
\* is checked out.
C16_SessionsReleased ==
    /\ checkedout = sessions.connected
    /\ checkedout <= PoolSize + MaxOverflow
    /\ checkedout <= 20
    /\ InFlight = 0 => checkedout = 0

\* The pool is exhausted and a request waits for a connection, after another
\* request has completed.
C16_Witness ==
    /\ checkedout = PoolSize + MaxOverflow
    /\ sessions.waiting >= 1
    /\ sessions.returned + sessions.failed >= 1

\* C17 as stated: a cancelled caller has committed all the records it
\* accepted or none of them.  The caller is one whose accepted records all
\* carry an identifier and whose bulk commit, if it failed, failed on
\* UNIQUE(job_id).
C17_CancelledAllOrNothing ==
    \A p \in Procs :
        (/\ pc[p] = "cancelled"
         /\ bulk[p] \in {"none", "IntegrityError"}
         /\ \A i \in 1..Len(scraped_jobs_dict[p]) : Truthy(scraped_jobs_dict[p][i].id))
        => \/ committed[p] = <<>>
           \/ Len(committed[p]) = Len(scraped_jobs_dict[p])

\* C17 as amended: the step that cancels a caller leaves the store as it
\* was (what is in flight is rolled back); a caller cancelled while it
\* fetched or while its bulk commit was in flight has committed nothing;
\* and a caller cancelled in the per-record loop has committed exactly the
\* records the loop had committed before, each of them whole in the store.
C17_CancelledRollsBackInFlight ==
    /\ [] \A p \in Procs :
             pc[p] = "cancelled"
             => /\ exc[p] = "CancelledError"
                /\ bulk[p] = "none" => committed[p] = <<>>
                /\ Len(committed[p]) = Count(record_state[p], "committed")
                /\ \A i \in 1..Len(committed[p]) :
                      \E k \in 1..Len(store) : store[k] = committed[p][i]
    /\ [][ \A p \in Procs :
             (pc[p] # "cancelled" /\ pc'[p] = "cancelled") => store' = store ]_vars

\* A caller was cancelled in the per-record loop over a batch of two, after
\* the loop had committed the first record.
C17_Witness ==
    \E p \in Procs :
        /\ pc[p] = "cancelled"
        /\ bulk[p] = "IntegrityError"
        /\ Len(new_db_jobs[p]) = 2
        /\ record_state[p] = << "committed" >>
        /\ Len(committed[p]) = 1

\* Whether sub is seq with some of its elements left out.
RECURSIVE IsSubsequence(_, _)
IsSubsequence(sub, seq) ==
    IF sub = <<>> THEN TRUE
    ELSE IF seq = <<>> THEN FALSE
    ELSE IF Head(sub) = Head(seq) THEN IsSubsequence(Tail(sub), Tail(seq))
    ELSE IsSubsequence(sub, Tail(seq))

\* The position of the first record of the batch with the identifier.
FirstIndex(batch, id) ==
    CHOOSE i \in 1..Len(batch) :
        batch[i].id = id /\ \A j \in 1..(i - 1) : batch[j].id # id

\* What C18 says of the records accepted from a batch, given the rows of the
\* store at the time of the existence check.  An identifier is a truthy id:
\* records without one share no identifier, as rows with a NULL job_id do
\* under UNIQUE(job_id).
AcceptedAsSpecified(rows, batch, accepted, additional_needed) ==
    /\ IsSubsequence(accepted, batch)
    /\ Len(accepted) <= additional_needed
    /\ \A i, j \in 1..Len(accepted) :
          (i < j /\ Truthy(accepted[i].id))
          => /\ accepted[i].id # accepted[j].id
             /\ Truthy(accepted[j].id)
                   => FirstIndex(batch, accepted[i].id)
                         < FirstIndex(batch, accepted[j].id)
    /\ \A i \in 1..Len(accepted) :
          Truthy(accepted[i].id)
          => /\ accepted[i].id \notin StoreIds(rows)
             /\ accepted[i] = batch[FirstIndex(batch, accepted[i].id)]

\* C18: in the step in which a caller filters the batch it fetched, with
\* additional_needed >= 1, the accepted records are a subsequence of the
\* batch, at most additional_needed of them; no two of them share an
\* identifier; none carries an identifier that is in the store; each that
\* carries one is the first record of the batch with it; and the step
\* queries the store for existing identifiers once, or not at all when no
\* record of the batch has an identifier.
C18_FilterAccepts ==
    [][ \A p \in Procs :
          (pc[p] = "scrape" /\ pc'[p] = "save" /\ args[p].additional_needed >= 1)
          => /\ AcceptedAsSpecified(store, fetched'[p], scraped_jobs_dict'[p],
                                    args[p].additional_needed)
             /\ existence_queries'[p] =
                   existence_queries[p]
                       + (IF \E i \in 1..Len(fetched'[p]) : Truthy(fetched'[p][i].id)
                          THEN 1 ELSE 0) ]_vars

\* A caller that needed two records fetched a batch that holds one
\* identifier twice, and accepted the first of the two records.
C18_Witness ==
    \E p \in Procs :
        /\ pc[p] = "save"
        /\ args[p].additional_needed = 2
        /\ Len(fetched[p]) = 2
        /\ Truthy(fetched[p][1].id)
        /\ fetched[p][2].id = fetched[p][1].id
        /\ scraped_jobs_dict[p] = << fetched[p][1] >>
        /\ existence_queries[p] = 1

\* The records of jobs whose state, in states, is the given one.
RECURSIVE InState(_, _, _)
InState(jobs, states, state) ==
    IF states = <<>> THEN <<>>
    ELSE (IF Head(states) = state THEN << Head(jobs) >> ELSE <<>>)
         \o InState(Tail(jobs), Tail(states), state)

\* C19: in the per-record loop, the records are handled in batch order, one
\* per iteration, and the loop ends after the last; each handled record is
\* in exactly one of the states committed, skipped-duplicate and failed;
\* saved_count and duplicate_count count the first two, and the three
\* add up to the number of records handled, which is the size of the batch
\* when the loop has ended; and the records the loop committed are in the
\* store, whatever was rolled back after them.
C19_FallbackLoop ==
    \A p \in Procs :
        idx[p] >= 1
        => /\ pc[p] \in {"individual", "done", "cancelled"}
           /\ Len(record_state[p]) = idx[p] - 1
           /\ pc[p] = "individual" => idx[p] <= Len(new_db_jobs[p])
           /\ pc[p] = "done" => Len(record_state[p]) = Len(new_db_jobs[p])
           /\ \A i \in 1..Len(record_state[p]) :
                 record_state[p][i] \in {"committed", "skipped-duplicate", "failed"}
           /\ saved_count[p] = Count(record_state[p], "committed")
           /\ duplicate_count[p] = Count(record_state[p], "skipped-duplicate")
           /\ saved_count[p] + duplicate_count[p] + Count(record_state[p], "failed")
                 = Len(record_state[p])
           /\ Len(committed[p]) = saved_count[p]
           /\ \A i \in 1..Len(committed[p]) :
                 /\ \E k \in 1..Len(store) : store[k] = committed[p][i]
                 /\ committed[p][i].job_id =
                       InState(new_db_jobs[p], record_state[p], "committed")[i].job_id

\* The loop over a batch of two has ended: it committed the first record,
\* and rolled back the second, which the store rejected.
C19_Witness ==
    \E p \in Procs :
        /\ pc[p] = "done"
        /\ idx[p] = 3
        /\ record_state[p] = << "committed", "skipped-duplicate" >>
        /\ \E k \in 1..Len(store) : store[k] = committed[p][1]

\* C20: an engine call whose attempt returned an empty frame returns [], does
\* not raise, has made no existence query and has committed nothing, so that
\* the request is left with its store matches; and the step in which the
\* frame comes back empty leaves the store as it was.
C20_EmptyFetch ==
    /\ [] \A p \in Procs :
             (/\ IsEngine(p)
              /\ outcomes[p] # <<>>
              /\ outcomes[p][Len(outcomes[p])] = "ok"
              /\ fetched[p] = <<>>)
             => /\ pc[p] = "done"
                /\ exc[p] = "none"
                /\ returned[p] = <<>>
                /\ db_jobs_dict[p] \o returned[p] = db_jobs_dict[p]
                /\ existence_queries[p] = 0
                /\ bulk[p] = "none"
                /\ new_db_jobs[p] = <<>>
                /\ committed[p] = <<>>
    /\ [][ \A p \in Procs :
             (pc[p] = "scrape" /\ fetched'[p] = <<>> /\ Len(outcomes'[p]) > Len(outcomes[p])
                 /\ outcomes'[p][Len(outcomes'[p])] = "ok")
             => /\ store' = store
                /\ existence_queries' = existence_queries ]_vars

\* An engine call that started from one store match got an empty frame on
\* its second attempt and returned.
C20_Witness ==
    \E p \in Procs :
        /\ IsEngine(p)
        /\ pc[p] = "done"
        /\ Len(db_jobs_dict[p]) = 1
        /\ outcomes[p] = << "transient", "ok" >>
        /\ fetched[p] = <<>>
        /\ returned[p] = <<>>

\* C21: every call of the provider is made with offset = the offset of the
\* request + the number of store matches the engine was given, whatever the
\* offset and whether or not there are store matches.
C21_ScraperOffset ==
    \A p \in Procs :
        \A i \in 1..Len(calls[p]) :
            calls[p][i].offset = args[p].offset + Len(db_jobs_dict[p])

\* The provider was called for a request with a positive offset that had a
\* store match.
C21_Witness ==
    \E p \in Procs :
        /\ calls[p] # <<>>
        /\ args[p].offset >= 1
        /\ Len(db_jobs_dict[p]) >= 1
        /\ calls[p][1].offset = args[p].offset + Len(db_jobs_dict[p])

\* The non-null provider identifiers of a sequence of rows or dicts of rows.
JobIds(rows) == StoreIds(rows) \ {None}

\* Whether no two rows carry the same non-null job_id.
DistinctJobIds(rows) ==
    \A i, j \in 1..Len(rows) :
        (i < j /\ rows[i].job_id # None) => rows[i].job_id # rows[j].job_id

\* C22: the jobs of a search response carry pairwise distinct non-null
\* job_ids; and in the working set of an engine call, no record the engine
\* returns carries the job_id of a store match the call started from, nor
\* the identifier of another record it returns.
C22_NoDuplicateInResponse ==
    \A p \in Procs :
        /\ (pc[p] = "done" /\ IsRequest(p))
              => DistinctJobIds(response[p].body.jobs)
        /\ (pc[p] = "done" /\ IsEngine(p))
              => /\ DistinctJobIds(db_jobs_dict[p])
                 /\ (RawIds(returned[p]) \ {None}) \cap JobIds(db_jobs_dict[p]) = {}
                 /\ \A i, j \in 1..Len(returned[p]) :
                       (i < j /\ Truthy(returned[p][i].id))
                       => returned[p][i].id # returned[p][j].id

\* An engine call fetched a record that carries the job_id of one of the
\* store matches it started from, and returned without it.
C22_Witness ==
    \E p \in Procs :
        /\ pc[p] = "done"
        /\ IsEngine(p)
        /\ (RawIds(fetched[p]) \ {None}) \cap JobIds(db_jobs_dict[p]) # {}
        /\ (RawIds(returned[p]) \ {None}) \cap JobIds(db_jobs_dict[p]) = {}

\* C23: a step in which a caller sends GET /jobs, which calls no provider,
\* leaves the store as it was; and the store changes only in a step of
\* _save_jobs_to_database or _save_jobs_individually, which then appends rows
\* to it.
C23_StoreWrittenOnlyBySave ==
    [][ /\ \A p \in Procs :
              (pc[p] = "idle" /\ pc'[p] # "idle" /\ args'[p].op = "get_jobs")
              => /\ store' = store
                 /\ calls'[p] = <<>>
        /\ store' # store
              => /\ \E p \in Procs :
                       \/ pc[p] = "save" /\ pc'[p] = "done"
                       \/ pc[p] = "individual" /\ idx'[p] = idx[p] + 1
                 /\ Len(store') > Len(store)
                 /\ SubSeq(store', 1, Len(store)) = store ]_vars

\* A request was answered from a store that holds rows, one of them
\* committed by the other caller.
C23_Witness ==
    \E p \in Procs :
        /\ pc[p] = "done"
        /\ IsRequest(p)
        /\ response[p].body.jobs # <<>>
        /\ committed[3 - p] # <<>>
        /\ calls[p] = <<>>

====
